---- MODULE Spec2Model ----
(***************************************************************************)
(* Grid-X coordinator: worker sessions, FIFO dispatcher, watchdog, credit  *)
(* engine and store, modelled from src/coordinator/*.py.                    *)
(*                                                                         *)
(* Units.  Credits are integers counted in 1e-4 credit ("ticks"), the      *)
(* precision every cost is rounded to; durations are integers counted in   *)
(* 1e-4 second, so that duration * COST_PER_SECOND can fall between two    *)
(* ticks and round(raw, 4) is a real rounding.  Timestamps are values of   *)
(* the logical clock in seconds; 0 stands for SQL NULL.                    *)
(*                                                                         *)
(* Scheduling.  The coordinator is one asyncio event loop.  A coroutine    *)
(* runs without interleaving until it awaits something that is not ready:  *)
(* the registry lock held by another task, or ws.send() of assign_job.     *)
(* job_queue is unbounded, so put() never suspends.  Every action below    *)
(* is one such uninterrupted run.                                          *)
(***************************************************************************)
EXTENDS Integers, Sequences, FiniteSets, TLC

VARIABLES
    jobs,          \* table jobs: job index (creation order) -> row
    workers,       \* table workers: worker id -> row
    user_credits,  \* table user_credits: user id -> balance
    user_auth,     \* table user_auth: user id -> token
    workers_ws,    \* workers.workers_ws, an insertion-ordered dict
    job_queue,     \* scheduler.job_queue
    lock,          \* workers.lock: the task holding it, or NoTask
    sending,       \* the assign_job send the lock holder is suspended in
    sess,          \* one handle_worker coroutine per connection
    tasks,         \* dispatch() coroutines waiting for the lock (submit, create_task)
    clock,         \* time.time()
    hist           \* history of debits, credits and requeues (not program state)

vars == <<jobs, workers, user_credits, user_auth, workers_ws, job_queue,
          lock, sending, sess, tasks, clock, hist>>

----------------------------------------------------------------------------
(* Bounds of the model *)

MaxJobs == 2
MaxResults == 2
MaxTasks == 1
MaxTicks == 1
TickSeconds == 31
MaxLine == 4

Users == {"alice", "bob"}
Owners == Users \cup {""}
Tokens == {"", "t1", "t2"}
WorkerIds == {"w1", "w2"}
Conns == {"c1", "c2"}
Timeouts == {1, 60}
NoDuration == 0 - 1
NoExit == 0 - 1
Durations == {NoDuration, 12346}
ExitCodes == {0, 1}

NoWorker == ""
NoConn == ""
NoTask == ""
AnonTask == "anon"
NULL == 0
NoJob == 0

----------------------------------------------------------------------------
(* credit_manager.py: rates.  COST_PER_SECOND = 0.1 credit/s is 1 tick per *)
(* 10 duration units; REWARD_RATIO = 0.85 is 85/100.                        *)

COST_PER_SECOND_DEN == 10
MIN_COST == 500
MAX_COST == 250000
REWARD_RATIO_PCT == 85
DEFAULT_JOB_TIMEOUT == 60
DEFAULT_INITIAL_BALANCE == 1000000
TICKS_PER_CREDIT == 10000
heartbeat_timeout == 30

Max(a, b) == IF a >= b THEN a ELSE b
Min(a, b) == IF a <= b THEN a ELSE b

\* round(num/den) to the nearest integer, ties to even (Python round())
RoundDiv(num, den) ==
    LET q == num \div den
        r == num % den
    IN  IF 2 * r < den THEN q
        ELSE IF 2 * r > den THEN q + 1
        ELSE IF q % 2 = 0 THEN q ELSE q + 1

compute_cost(duration_seconds) ==
    IF duration_seconds = NoDuration \/ duration_seconds < 0
    THEN MIN_COST
    ELSE Max(MIN_COST, Min(MAX_COST, RoundDiv(duration_seconds, COST_PER_SECOND_DEN)))

compute_reward(actual_cost) ==
    IF actual_cost <= 0 THEN 0 ELSE RoundDiv(actual_cost * REWARD_RATIO_PCT, 100)

get_max_reserve(timeout_seconds) ==
    LET timeout == IF timeout_seconds <= 0 THEN DEFAULT_JOB_TIMEOUT ELSE timeout_seconds
        raw == (timeout * TICKS_PER_CREDIT) \div COST_PER_SECOND_DEN
    IN  Min(MAX_COST, Max(MIN_COST, raw))

----------------------------------------------------------------------------
(* Operations are functions on a snapshot s of all the variables; an       *)
(* action applies a chain of them and commits the result.                   *)

St == [jobs |-> jobs, workers |-> workers, user_credits |-> user_credits,
       user_auth |-> user_auth, workers_ws |-> workers_ws, job_queue |-> job_queue,
       lock |-> lock, sending |-> sending, sess |-> sess, tasks |-> tasks,
       clock |-> clock, hist |-> hist]

Commit(s) ==
    /\ jobs' = s.jobs
    /\ workers' = s.workers
    /\ user_credits' = s.user_credits
    /\ user_auth' = s.user_auth
    /\ workers_ws' = s.workers_ws
    /\ job_queue' = s.job_queue
    /\ lock' = s.lock
    /\ sending' = s.sending
    /\ sess' = s.sess
    /\ tasks' = s.tasks
    /\ clock' = s.clock
    /\ hist' = s.hist

Put(f, k, v) == [x \in DOMAIN f \cup {k} |-> IF x = k THEN v ELSE f[x]]

now(s) == s.clock

(* ---- credit_manager.py: balances ---- *)

ensure_user(s, user_id, initial_balance) ==
    IF user_id \in DOMAIN s.user_credits THEN s
    ELSE [s EXCEPT !.user_credits = Put(@, user_id, initial_balance),
                   !.hist.inflow[user_id] = initial_balance]

get_balance(s, user_id) ==
    IF user_id \in DOMAIN s.user_credits THEN s.user_credits[user_id] ELSE 0

\* faulty variant of deduct: reports success and leaves the balance alone
deduct_nothing(s, user_id, amount) == [ok |-> TRUE, s |-> s]

\* the conditional UPDATE ... WHERE balance >= amount; ok is rowcount > 0
deduct(s, user_id, amount) ==
    IF amount <= 0 THEN [ok |-> TRUE, s |-> s]
    ELSE IF user_id \in DOMAIN s.user_credits /\ s.user_credits[user_id] >= amount
         THEN [ok |-> TRUE, s |-> [s EXCEPT !.user_credits[user_id] = @ - amount]]
         ELSE [ok |-> FALSE, s |-> s]

credit(s, user_id, amount) ==
    IF amount <= 0 THEN s
    ELSE LET s1 == ensure_user(s, user_id, 0)
         IN  [s1 EXCEPT !.user_credits[user_id] = @ + amount,
                        !.hist.inflow[user_id] = @ + amount]

(* ---- workers.py: the in-memory registry (last_seen is never read) ---- *)

HasEntry(reg, worker_id) == \E i \in 1..Len(reg) : reg[i].wid = worker_id

EntryIndex(reg, worker_id) == CHOOSE i \in 1..Len(reg) : reg[i].wid = worker_id

Eligible(w, exclude_owner) ==
    /\ ~(exclude_owner # "" /\ w.owner_id # "" /\ w.owner_id = exclude_owner)
    /\ w.status = "idle"
    /\ w.can_execute

\* faulty variant of get_idle_worker_id: the owner exclusion is dropped
get_idle_worker_id_any(reg, exclude_owner) ==
    IF \E i \in 1..Len(reg) : Eligible(reg[i], "")
    THEN LET i == CHOOSE k \in 1..Len(reg) :
                      /\ Eligible(reg[k], "")
                      /\ \A m \in 1..(k - 1) : ~Eligible(reg[m], "")
         IN  reg[i].wid
    ELSE NoWorker

get_idle_worker_id(reg, exclude_owner) ==
    IF \E i \in 1..Len(reg) : Eligible(reg[i], exclude_owner)
    THEN LET i == CHOOSE k \in 1..Len(reg) :
                      /\ Eligible(reg[k], exclude_owner)
                      /\ \A m \in 1..(k - 1) : ~Eligible(reg[m], exclude_owner)
         IN  reg[i].wid
    ELSE NoWorker

SetRegStatus(reg, worker_id, status) ==
    [i \in 1..Len(reg) |->
        IF reg[i].wid = worker_id THEN [reg[i] EXCEPT !.status = status] ELSE reg[i]]

set_worker_busy(s, worker_id) ==
    [s EXCEPT !.workers_ws = SetRegStatus(@, worker_id, "busy")]

set_worker_idle(s, worker_id) ==
    [s EXCEPT !.workers_ws = SetRegStatus(@, worker_id, "idle")]

\* workers_ws[worker_id] = {...}: an existing key keeps its position
register_worker_ws(s, worker_id, ws, can_execute, owner_id) ==
    LET e == [wid |-> worker_id, ws |-> ws, can_execute |-> can_execute,
              status |-> "idle", owner_id |-> owner_id]
    IN  IF HasEntry(s.workers_ws, worker_id)
        THEN [s EXCEPT !.workers_ws[EntryIndex(s.workers_ws, worker_id)] = e]
        ELSE [s EXCEPT !.workers_ws = Append(@, e)]

unregister_worker_ws(s, worker_id) ==
    LET keep(e) == e.wid # worker_id
    IN  [s EXCEPT !.workers_ws = SelectSeq(@, keep)]

get_worker_ws(s, worker_id) ==
    IF HasEntry(s.workers_ws, worker_id)
    THEN s.workers_ws[EntryIndex(s.workers_ws, worker_id)].ws
    ELSE NoConn

RegStatus(s, worker_id) ==
    IF HasEntry(s.workers_ws, worker_id)
    THEN s.workers_ws[EntryIndex(s.workers_ws, worker_id)].status
    ELSE "idle"

(* ---- database.py ---- *)

db_create_job(s, user_id, timeout_s, reserved_cost) ==
    [s EXCEPT !.jobs = Append(@,
        [user_id |-> user_id, status |-> "queued", worker_id |-> NoWorker,
         started_at |-> NULL, completed_at |-> NULL,
         limits |-> [timeout_s |-> timeout_s], exit_code |-> NoExit,
         cost |-> Max(0, reserved_cost), duration_seconds |-> NoDuration])]

JobExists(s, job_id) == job_id \in 1..Len(s.jobs)

db_register_user_auth(s, user_id, auth_token) ==
    IF user_id = "" \/ auth_token = "" THEN s
    ELSE [s EXCEPT !.user_auth = Put(@, user_id, auth_token)]

\* INSERT ... ON CONFLICT(id) DO UPDATE: owner_id is written by the INSERT only,
\* and auth_token is not among the inserted columns, so it stays NULL
db_upsert_worker(s, worker_id, status, owner_id, auth_token) ==
    LET row == IF worker_id \in DOMAIN s.workers
               THEN [s.workers[worker_id] EXCEPT !.status = status,
                                                 !.last_heartbeat = now(s)]
               ELSE [owner_id |-> owner_id, status |-> status, auth_token |-> "",
                     last_heartbeat |-> now(s), jobs_completed |-> 0]
        s1  == [s EXCEPT !.workers = Put(@, worker_id, row)]
    IN  IF auth_token # "" /\ owner_id # ""
        THEN db_register_user_auth(s1, owner_id, auth_token)
        ELSE s1

db_set_worker_status(s, worker_id, status) ==
    IF worker_id \in DOMAIN s.workers
    THEN [s EXCEPT !.workers[worker_id].status = status,
                   !.workers[worker_id].last_heartbeat = now(s)]
    ELSE s

db_set_worker_offline(s, worker_id) ==
    IF worker_id \in DOMAIN s.workers
    THEN [s EXCEPT !.workers[worker_id].status = "offline"]
    ELSE s

db_assign_job_to_worker(s, job_id, worker_id) ==
    IF ~JobExists(s, job_id) \/ s.jobs[job_id].status # "queued" THEN s
    ELSE LET s1 == [s EXCEPT !.jobs[job_id].worker_id = worker_id,
                             !.jobs[job_id].status = "running",
                             !.jobs[job_id].started_at = now(s)]
         IN  IF worker_id \in DOMAIN s1.workers
             THEN [s1 EXCEPT !.workers[worker_id].status = "busy"]
             ELSE s1

db_set_job_assigned(s, job_id, worker_id) == db_assign_job_to_worker(s, job_id, worker_id)

db_set_job_running(s, job_id) ==
    IF JobExists(s, job_id)
    THEN [s EXCEPT !.jobs[job_id].status = "running",
                   !.jobs[job_id].started_at = now(s)]
    ELSE s

JobStatusFor(exit_code) == IF exit_code = 0 THEN "completed" ELSE "failed"

\* faulty variant of db_complete_job: jobs_completed counts failed jobs too
db_complete_job_counting(s, job_id, worker_id, exit_code) ==
    LET s1 == [s EXCEPT !.jobs[job_id].status = JobStatusFor(exit_code),
                        !.jobs[job_id].completed_at = now(s),
                        !.jobs[job_id].exit_code = exit_code]
    IN  IF worker_id \in DOMAIN s1.workers
        THEN [s1 EXCEPT !.workers[worker_id].status = "idle",
                        !.workers[worker_id].jobs_completed = @ + 1]
        ELSE s1

db_complete_job(s, job_id, worker_id, exit_code) ==
    LET s1 == [s EXCEPT !.jobs[job_id].status = JobStatusFor(exit_code),
                        !.jobs[job_id].completed_at = now(s),
                        !.jobs[job_id].exit_code = exit_code]
    IN  IF worker_id \in DOMAIN s1.workers
        THEN [s1 EXCEPT !.workers[worker_id].status = "idle",
                        !.workers[worker_id].jobs_completed =
                            IF exit_code = 0 THEN @ + 1 ELSE @]
        ELSE s1

\* completes through the worker recorded on the job row, else the job row alone
db_set_job_completed(s, job_id, exit_code) ==
    IF ~JobExists(s, job_id) THEN s
    ELSE IF s.jobs[job_id].worker_id # NoWorker
         THEN db_complete_job(s, job_id, s.jobs[job_id].worker_id, exit_code)
         ELSE [s EXCEPT !.jobs[job_id].status = JobStatusFor(exit_code),
                        !.jobs[job_id].completed_at = now(s),
                        !.jobs[job_id].exit_code = exit_code]

db_verify_user_auth(s, user_id, auth_token) ==
    /\ user_id # ""
    /\ user_id \in DOMAIN s.user_auth
    /\ s.user_auth[user_id] = auth_token

\* SELECT * FROM workers WHERE owner_id=? AND auth_token=? (NULL matches nothing)
db_get_worker_by_auth(s, owner_id, auth_token) ==
    LET found == {w \in DOMAIN s.workers :
                     /\ owner_id # ""
                     /\ s.workers[w].owner_id = owner_id
                     /\ s.workers[w].auth_token # ""
                     /\ s.workers[w].auth_token = auth_token}
    IN  IF found = {} THEN NoWorker ELSE CHOOSE w \in found : TRUE

\* faulty variant of requeue_job: the requeue reserves the job's cost again
requeue_job_charging(s, job_id) ==
    LET user_id == s.jobs[job_id].user_id
    IN  [s EXCEPT !.jobs[job_id].status = "queued",
                  !.jobs[job_id].worker_id = NoWorker,
                  !.hist.requeued[job_id] = TRUE,
                  !.user_credits = IF user_id \in DOMAIN @
                                   THEN [@ EXCEPT ![user_id] = @ - s.jobs[job_id].cost]
                                   ELSE @]

\* UPDATE jobs SET status='queued', worker_id=NULL (teardown, watchdog, dispatch)
requeue_job(s, job_id) ==
    [s EXCEPT !.jobs[job_id].status = "queued",
              !.jobs[job_id].worker_id = NoWorker,
              !.hist.requeued[job_id] = TRUE]

\* faulty variant of job_queue_put: the id is put at the front
job_queue_put_front(s, job_id) == [s EXCEPT !.job_queue = <<job_id>> \o @]

job_queue_put(s, job_id) == [s EXCEPT !.job_queue = Append(@, job_id)]

(* ---- credit_manager.py: settlement ---- *)

settle_job(s, job_id, worker_owner_id, duration_seconds) ==
    IF ~JobExists(s, job_id) THEN s
    ELSE LET job         == s.jobs[job_id]
             user_id     == job.user_id
             reserved    == IF job.cost <= 0 THEN MAX_COST ELSE job.cost
             actual_cost == compute_cost(duration_seconds)
             refund      == Max(0, reserved - actual_cost)
             reward      == compute_reward(actual_cost)
             s1 == IF refund > 0 /\ user_id # ""
                   THEN [credit(s, user_id, refund) EXCEPT
                            !.hist.refunded[job_id] = @ + refund]
                   ELSE s
             s2 == IF reward > 0 /\ worker_owner_id # ""
                   THEN [credit(s1, worker_owner_id, reward) EXCEPT
                            !.hist.rewarded[job_id] = @ + reward,
                            !.hist.selfpaid[job_id] =
                                IF worker_owner_id = user_id THEN @ + reward ELSE @]
                   ELSE s1
         IN  [s2 EXCEPT !.jobs[job_id].duration_seconds =
                            IF duration_seconds = NoDuration THEN 0 ELSE duration_seconds,
                        !.jobs[job_id].cost = actual_cost]

(* ---- scheduler.py ---- *)

\* "limits" of the assign_job message that dispatch() builds
job_msg_limits == [cpus |-> 1, memory |-> "256m", timeout_s |-> 30]

NoSend == [job |-> NoJob, wid |-> NoWorker, ws |-> NoConn, limits |-> job_msg_limits]

\* dispatch() leaves "async with lock": the lock is released and a session
\* that awaited dispatch() goes back to reading messages
dispatch_return(s) ==
    LET t == s.lock
    IN  [s EXCEPT !.lock = NoTask,
                  !.sending = NoSend,
                  !.sess = IF t \in Conns THEN [@ EXCEPT ![t].pc = "recv"] ELSE @]

\* faulty variant of dispatch_revert: the job row is reset but the worker is
\* left busy
dispatch_revert_busy(s, job_id, idle_id) ==
    dispatch_return(job_queue_put(requeue_job(s, job_id), job_id))

\* the lines after a failed send (or a missing session handle)
dispatch_revert(s, job_id, idle_id) ==
    LET s1 == set_worker_idle(s, idle_id)
        s2 == db_set_worker_status(s1, idle_id, "idle")
        s3 == requeue_job(s2, job_id)
        s4 == job_queue_put(s3, job_id)
    IN  dispatch_return(s4)

\* the while loop, entered with the lock held, up to the next point where
\* dispatch() returns or suspends in ws.send()
RECURSIVE dispatch_loop(_)
dispatch_loop(s) ==
    IF s.job_queue = <<>> THEN dispatch_return(s)
    ELSE
      LET job_id == Head(s.job_queue)
          s1     == [s EXCEPT !.job_queue = Tail(@)]
      IN  IF ~JobExists(s1, job_id) THEN dispatch_loop(s1)
          ELSE
            LET owner_to_exclude == s1.jobs[job_id].user_id
                idle_id == get_idle_worker_id(s1.workers_ws, owner_to_exclude)
            IN  IF idle_id = NoWorker
                THEN dispatch_return(job_queue_put(s1, job_id))
                ELSE
                  LET s2 == set_worker_busy(s1, idle_id)
                      s3 == db_set_worker_status(s2, idle_id, "busy")
                      s4 == db_set_job_assigned(s3, job_id, idle_id)
                      ws == get_worker_ws(s4, idle_id)
                  IN  IF ws = NoConn
                      THEN dispatch_revert(s4, job_id, idle_id)
                      ELSE [s4 EXCEPT !.sending =
                                [job |-> job_id, wid |-> idle_id, ws |-> ws,
                                 limits |-> job_msg_limits]]

\* faulty variant of dispatch: the loop is entered without taking the lock
dispatch_unlocked(s, t) ==
    IF t \in Conns
    THEN dispatch_loop([s EXCEPT !.lock = t, !.sess[t].pc = "dispatch"])
    ELSE dispatch_loop([s EXCEPT !.lock = t])

\* a task calls dispatch(): it runs the loop if the lock is free, else it joins
\* the tasks waiting for it.  A session calls it only right after it held the
\* lock itself, so a session never waits here.
dispatch(s, t) ==
    IF s.lock # NoTask
    THEN [s EXCEPT !.tasks = @ + 1]
    ELSE IF t \in Conns
         THEN dispatch_loop([s EXCEPT !.lock = t, !.sess[t].pc = "dispatch"])
         ELSE dispatch_loop([s EXCEPT !.lock = t])

\* dispatch() when a statement after job_queue.get_nowait() raises (db_get_job
\* on a failing store): "async with lock" releases the lock and the outer
\* "except Exception: pass" absorbs the exception
dispatch_raising(s, t) ==
    IF s.lock # NoTask
    THEN [s EXCEPT !.tasks = @ + 1]
    ELSE IF s.job_queue = <<>> THEN s
         ELSE [s EXCEPT !.job_queue = Tail(@)]

on_job_started(s, job_id) == db_set_job_running(s, job_id)

\* ends with asyncio.create_task(dispatch()): one more task waiting to dispatch
on_job_result(s, job_id, worker_id, exit_code, duration_seconds) ==
    LET owner_id == IF worker_id \in DOMAIN s.workers
                    THEN s.workers[worker_id].owner_id ELSE ""
        s1 == settle_job(s, job_id, owner_id, duration_seconds)
        s2 == db_set_job_completed(s1, job_id, exit_code)
        s3 == set_worker_idle(s2, worker_id)
        s4 == db_set_worker_status(s3, worker_id, "idle")
    IN  [s4 EXCEPT !.tasks = @ + 1]

\* the watchdog's requeue of one job: worker row offline, job row queued, put
watchdog_requeue(s, worker_id, job_id) ==
    LET s1 == db_set_worker_offline(s, worker_id)
        s2 == requeue_job(s1, job_id)
        s3 == job_queue_put(s2, job_id)
    IN  [s3 EXCEPT !.hist.swept[job_id] = TRUE]

\* faulty variant of watchdog_sweep: the registry is not consulted
RECURSIVE watchdog_sweep_nolive(_, _, _)
watchdog_sweep_nolive(s, s0, job_id) ==
    IF job_id > Len(s0.jobs) THEN s
    ELSE
      LET r         == s0.jobs[job_id]
          worker_id == r.worker_id
          last      == IF worker_id \in DOMAIN s.workers
                       THEN s.workers[worker_id].last_heartbeat ELSE NULL
          stale     == last = NULL \/ now(s) - last > heartbeat_timeout
      IN  IF /\ r.status = "running"
             /\ worker_id # NoWorker
             /\ stale
          THEN watchdog_sweep_nolive(watchdog_requeue(s, worker_id, job_id), s0, job_id + 1)
          ELSE watchdog_sweep_nolive(s, s0, job_id + 1)

\* faulty variant of watchdog_sweep: the rows are reset but never put on job_queue
RECURSIVE watchdog_sweep_noput(_, _, _)
watchdog_sweep_noput(s, s0, job_id) ==
    IF job_id > Len(s0.jobs) THEN s
    ELSE
      LET r         == s0.jobs[job_id]
          worker_id == r.worker_id
          last      == IF worker_id \in DOMAIN s.workers
                       THEN s.workers[worker_id].last_heartbeat ELSE NULL
          stale     == last = NULL \/ now(s) - last > heartbeat_timeout
      IN  IF /\ r.status = "running"
             /\ worker_id # NoWorker
             /\ get_worker_ws(s, worker_id) = NoConn
             /\ stale
          THEN watchdog_sweep_noput(
                   [requeue_job(db_set_worker_offline(s, worker_id), job_id)
                        EXCEPT !.hist.swept[job_id] = TRUE],
                   s0, job_id + 1)
          ELSE watchdog_sweep_noput(s, s0, job_id + 1)

\* one sweep of watchdog_loop over the jobs that were running when it started
RECURSIVE watchdog_sweep(_, _, _)
watchdog_sweep(s, s0, job_id) ==
    IF job_id > Len(s0.jobs) THEN s
    ELSE
      LET r         == s0.jobs[job_id]
          worker_id == r.worker_id
          last      == IF worker_id \in DOMAIN s.workers
                       THEN s.workers[worker_id].last_heartbeat ELSE NULL
          stale     == last = NULL \/ now(s) - last > heartbeat_timeout
      IN  IF /\ r.status = "running"
             /\ worker_id # NoWorker
             /\ get_worker_ws(s, worker_id) = NoConn
             /\ stale
          THEN watchdog_sweep(watchdog_requeue(s, worker_id, job_id), s0, job_id + 1)
          ELSE watchdog_sweep(s, s0, job_id + 1)

(* ---- websocket.py: handle_worker ---- *)

Reject == "reject"
NoPend == [owner_id |-> "", auth_token |-> "", can_execute |-> FALSE]
FreeSess == [st |-> "free", worker_id |-> NoWorker, pc |-> "recv", pend |-> NoPend]

\* faulty variant of hello_decide: a wrong token registers a new worker
hello_decide_lenient(s, incoming_worker_id, owner_id, auth_token) ==
    IF auth_token # "" /\ owner_id # ""
    THEN IF db_verify_user_auth(s, owner_id, auth_token)
         THEN LET existing_worker == db_get_worker_by_auth(s, owner_id, auth_token)
              IN  IF existing_worker # NoWorker THEN existing_worker
                  ELSE incoming_worker_id
         ELSE incoming_worker_id
    ELSE incoming_worker_id

\* the authentication rules of hello: the canonical worker id, or Reject
hello_decide(s, incoming_worker_id, owner_id, auth_token) ==
    IF auth_token # "" /\ owner_id # ""
    THEN IF db_verify_user_auth(s, owner_id, auth_token)
         THEN LET existing_worker == db_get_worker_by_auth(s, owner_id, auth_token)
              IN  IF existing_worker # NoWorker THEN existing_worker
                  ELSE incoming_worker_id
         ELSE IF owner_id \in DOMAIN s.user_auth THEN Reject
              ELSE incoming_worker_id
    ELSE incoming_worker_id

\* hello from "async with lock" on: register, upsert, hello_ack, dispatch.
\* A hello_ack that finds the connection closed makes the handler return.
hello_register(s, c) ==
    LET me == s.sess[c]
        s1 == register_worker_ws(s, me.worker_id, c, me.pend.can_execute, me.pend.owner_id)
        s2 == db_upsert_worker(s1, me.worker_id, "idle", me.pend.owner_id, me.pend.auth_token)
        s3 == IF me.pend.auth_token # "" /\ me.pend.owner_id # ""
              THEN [s2 EXCEPT !.hist.wtoken[me.worker_id] = me.pend.auth_token]
              ELSE s2
    IN  IF me.st = "closing"
        THEN [s3 EXCEPT !.sess[c] = FreeSess]
        ELSE dispatch([s3 EXCEPT !.sess[c].pc = "recv", !.sess[c].pend = NoPend], c)

hello(s, c, incoming_worker_id, owner_id, auth_token, can_execute) ==
    LET worker_id == hello_decide(s, incoming_worker_id, owner_id, auth_token)
    IN  IF worker_id = Reject
        THEN [s EXCEPT !.sess[c] = FreeSess, !.hist.authfail = TRUE]
        ELSE LET s1 == [s EXCEPT !.sess[c].worker_id = worker_id,
                                 !.sess[c].pc = "hello",
                                 !.sess[c].pend = [owner_id |-> owner_id,
                                                   auth_token |-> auth_token,
                                                   can_execute |-> can_execute]]
             IN  IF s1.lock = NoTask THEN hello_register(s1, c) ELSE s1

\* every later message: touch last_seen, mirror the registry status to the store
message_preamble(s, c) ==
    db_set_worker_status(s, s.sess[c].worker_id, RegStatus(s, s.sess[c].worker_id))

job_started(s, c, job_id) == on_job_started(message_preamble(s, c), job_id)

job_result(s, c, job_id, exit_code, duration_seconds) ==
    LET s1 == message_preamble(s, c)
        s2 == on_job_result(s1, job_id, s1.sess[c].worker_id, exit_code, duration_seconds)
    IN  dispatch([s2 EXCEPT !.hist.nresults = @ + 1], c)

\* faulty variant of teardown_requeue: every running job is requeued, whatever
\* its worker
RECURSIVE teardown_requeue_any(_, _, _, _)
teardown_requeue_any(s, s0, worker_id, job_id) ==
    IF job_id > Len(s0.jobs) THEN s
    ELSE IF s0.jobs[job_id].status = "running"
         THEN teardown_requeue_any(job_queue_put(requeue_job(s, job_id), job_id),
                                   s0, worker_id, job_id + 1)
         ELSE teardown_requeue_any(s, s0, worker_id, job_id + 1)

\* the requeue loop of the cleanup, over the jobs running on worker_id
RECURSIVE teardown_requeue(_, _, _, _)
teardown_requeue(s, s0, worker_id, job_id) ==
    IF job_id > Len(s0.jobs) THEN s
    ELSE IF s0.jobs[job_id].status = "running" /\ s0.jobs[job_id].worker_id = worker_id
         THEN teardown_requeue(job_queue_put(requeue_job(s, job_id), job_id),
                               s0, worker_id, job_id + 1)
         ELSE teardown_requeue(s, s0, worker_id, job_id + 1)

\* "Cleanup on disconnect", skipped when no hello set worker_id
teardown(s, c) ==
    LET worker_id == s.sess[c].worker_id
    IN  IF worker_id = NoWorker THEN [s EXCEPT !.sess[c] = FreeSess]
        ELSE LET s1 == unregister_worker_ws(s, worker_id)
                 s2 == db_set_worker_offline(s1, worker_id)
                 s3 == teardown_requeue(s2, s2, worker_id, 1)
             IN  [s3 EXCEPT !.sess[c] = FreeSess]

(* ---- main.py ---- *)

\* faulty variant of submit_job: the job row is created and queued before the
\* balance is looked at, and stays when the submission is refused
submit_job_reject_late(s, user_id, timeout_seconds) ==
    LET reserved == get_max_reserve(timeout_seconds)
        s1 == ensure_user(s, user_id, DEFAULT_INITIAL_BALANCE)
        d  == deduct(s1, user_id, reserved)
        s2 == db_create_job(d.s, user_id, timeout_seconds, reserved)
        job_id == Len(s2.jobs)
        s3 == [s2 EXCEPT
                !.hist.debited = Append(@, get_balance(s1, user_id)
                                           - get_balance(d.s, user_id)),
                !.hist.refunded = Append(@, 0),
                !.hist.rewarded = Append(@, 0),
                !.hist.selfpaid = Append(@, 0),
                !.hist.requeued = Append(@, FALSE),
                !.hist.swept = Append(@, FALSE),
                !.hist.rejected[user_id] = @ \/ ~d.ok]
    IN  IF d.ok THEN dispatch(job_queue_put(s3, job_id), AnonTask)
        ELSE job_queue_put(s3, job_id)

submit_job(s, user_id, timeout_seconds) ==
    LET reserved == get_max_reserve(timeout_seconds)
        s1 == ensure_user(s, user_id, DEFAULT_INITIAL_BALANCE)
        d  == deduct(s1, user_id, reserved)
    IN  IF get_balance(s1, user_id) < reserved \/ ~d.ok
        THEN [s1 EXCEPT !.hist.rejected[user_id] = TRUE]
        ELSE LET s2 == db_create_job(d.s, user_id, timeout_seconds, reserved)
                 job_id == Len(s2.jobs)
                 s3 == [s2 EXCEPT
                         !.hist.debited = Append(@, get_balance(s1, user_id)
                                                    - get_balance(d.s, user_id)),
                         !.hist.refunded = Append(@, 0),
                         !.hist.rewarded = Append(@, 0),
                         !.hist.selfpaid = Append(@, 0),
                         !.hist.requeued = Append(@, FALSE),
                         !.hist.swept = Append(@, FALSE)]
             IN  dispatch(job_queue_put(s3, job_id), AnonTask)

\* faulty variant of submit_job_failing: the except branch does not refund
submit_job_failing_norefund(s, user_id, timeout_seconds) ==
    LET reserved == get_max_reserve(timeout_seconds)
        s1 == ensure_user(s, user_id, DEFAULT_INITIAL_BALANCE)
        d  == deduct(s1, user_id, reserved)
    IN  IF get_balance(s1, user_id) < reserved \/ ~d.ok
        THEN [s1 EXCEPT !.hist.rejected[user_id] = TRUE]
        ELSE [d.s EXCEPT !.hist.failed500 = TRUE]

\* submit_job when db_create_job raises (its ValueError, or an error of the
\* INSERT) and no row is written: the except branch credits the reservation
\* back and answers 500.  The refund undoes a debit, it is not an inflow.
submit_job_failing(s, user_id, timeout_seconds) ==
    LET reserved == get_max_reserve(timeout_seconds)
        s1 == ensure_user(s, user_id, DEFAULT_INITIAL_BALANCE)
        d  == deduct(s1, user_id, reserved)
    IN  IF get_balance(s1, user_id) < reserved \/ ~d.ok
        THEN [s1 EXCEPT !.hist.rejected[user_id] = TRUE]
        ELSE [credit(d.s, user_id, reserved) EXCEPT
                 !.hist.inflow[user_id] = @ - reserved,
                 !.hist.failed500 = TRUE]

register_worker_http(s, worker_id, owner_id) ==
    db_upsert_worker(s, worker_id, "idle", owner_id, "")

heartbeat_path(s, worker_id) ==
    IF worker_id \in DOMAIN s.workers
    THEN [s EXCEPT !.workers[worker_id].last_heartbeat = now(s)]
    ELSE s

----------------------------------------------------------------------------
(* The state machine *)

Init ==
    /\ jobs = <<>>
    /\ workers = <<>>
    /\ user_credits = <<>>
    /\ user_auth = <<>>
    /\ workers_ws = <<>>
    /\ job_queue = <<>>
    /\ lock = NoTask
    /\ sending = NoSend
    /\ sess = [c \in Conns |-> FreeSess]
    /\ tasks = 0
    /\ clock = 1
    /\ hist = [debited |-> <<>>, refunded |-> <<>>, rewarded |-> <<>>, selfpaid |-> <<>>,
               requeued |-> <<>>, swept |-> <<>>, rejected |-> [u \in Users |-> FALSE],
               authfail |-> FALSE, failed500 |-> FALSE,
               wtoken |-> [w \in WorkerIds |-> ""],
               inflow |-> [u \in Users |-> 0], nresults |-> 0]

Reading(c) == sess[c].st \in {"open", "closing"} /\ sess[c].pc = "recv"

\* a worker opens a connection; a connection name is reused only once nothing
\* refers to the previous connection of that name
Connect(c) ==
    /\ sess[c].st = "free"
    /\ \A i \in 1..Len(workers_ws) : workers_ws[i].ws # c
    /\ sending.ws # c
    /\ Commit([St EXCEPT !.sess[c].st = "open"])

\* the peer goes away; the handler notices when it next reads or sends
Disconnect(c) ==
    /\ sess[c].st = "open"
    /\ Commit([St EXCEPT !.sess[c].st = "closing"])

Hello(c, w, o, tok, can) ==
    /\ Reading(c)
    /\ Commit(hello(St, c, w, o, tok, can))

HelloResume(c) ==
    /\ sess[c].pc = "hello"
    /\ lock = NoTask
    /\ Commit(hello_register(St, c))

Hb(c) ==
    /\ Reading(c)
    /\ sess[c].worker_id # NoWorker
    /\ lock = NoTask
    /\ Commit(message_preamble(St, c))

JobStarted(c, j) ==
    /\ Reading(c)
    /\ sess[c].worker_id # NoWorker
    /\ lock = NoTask
    /\ Commit(job_started(St, c, j))

JobResult(c, j, x, d) ==
    /\ Reading(c)
    /\ sess[c].worker_id # NoWorker
    /\ lock = NoTask
    /\ hist.nresults < MaxResults
    /\ tasks < MaxTasks
    /\ Commit(job_result(St, c, j, x, d))

\* the handler leaves its read loop: the peer is gone
Teardown(c) ==
    /\ sess[c].st = "closing"
    /\ sess[c].pc = "recv"
    /\ sess[c].worker_id = NoWorker \/ lock = NoTask
    /\ Commit(teardown(St, c))

\* a message whose handling raises (e.g. a non-numeric exit_code)
ProtocolError(c) ==
    /\ Reading(c)
    /\ sess[c].worker_id # NoWorker
    /\ lock = NoTask
    /\ Commit(teardown(message_preamble(St, c), c))

\* a dispatch() that waited for the lock enters the loop
TaskDispatch ==
    /\ tasks > 0
    /\ lock = NoTask
    /\ Commit(dispatch([St EXCEPT !.tasks = @ - 1], AnonTask))

\* a waiting dispatch() enters the loop and the store fails under it
DispatchRaise ==
    /\ tasks > 0
    /\ lock = NoTask
    /\ job_queue # <<>>
    /\ Commit(dispatch_raising([St EXCEPT !.tasks = @ - 1], AnonTask))

SendOk ==
    /\ sending # NoSend
    /\ sess[sending.ws].st = "open"
    /\ Commit(dispatch_loop([St EXCEPT !.sending = NoSend]))

SendFail ==
    /\ sending # NoSend
    /\ sess[sending.ws].st # "open"
    /\ Commit(dispatch_revert(St, sending.job, sending.wid))

SubmitJob(u, t) ==
    /\ LET r == submit_job(St, u, t)
       IN  /\ Len(r.jobs) <= MaxJobs
           /\ r.tasks <= MaxTasks
           /\ Commit(r)

SubmitJobFail(u, t) == Commit(submit_job_failing(St, u, t))

\* submit_job while the line of jobs is at most MaxLine long
SubmitJobLine(u, t) ==
    /\ LET r == submit_job(St, u, t)
       IN  /\ Len(r.jobs) <= MaxLine
           /\ r.tasks <= MaxTasks
           /\ Commit(r)

RegisterWorkerHttp(w, o) == Commit(register_worker_http(St, w, o))

HeartbeatHttp(w) == Commit(heartbeat_path(St, w))

WatchdogTick == Commit(watchdog_sweep(St, St, 1))

Tick ==
    /\ clock + TickSeconds <= 1 + MaxTicks * TickSeconds
    /\ Commit([St EXCEPT !.clock = @ + TickSeconds])

Next ==
    \/ \E c \in Conns : Connect(c)
    \/ \E c \in Conns : Disconnect(c)
    \/ \E c \in Conns, w \in WorkerIds, o \in Owners, tok \in Tokens, can \in BOOLEAN :
           Hello(c, w, o, tok, can)
    \/ \E c \in Conns : HelloResume(c)
    \/ \E c \in Conns : Hb(c)
    \/ \E c \in Conns, j \in 1..MaxJobs : JobStarted(c, j)
    \/ \E c \in Conns, j \in 1..MaxJobs, x \in ExitCodes, d \in Durations :
           JobResult(c, j, x, d)
    \/ \E c \in Conns : Teardown(c)
    \/ \E c \in Conns : ProtocolError(c)
    \/ TaskDispatch
    \/ DispatchRaise
    \/ SendOk
    \/ SendFail
    \/ \E u \in Users, t \in Timeouts : SubmitJob(u, t)
    \/ \E u \in Users, t \in Timeouts : SubmitJobFail(u, t)
    \/ \E w \in WorkerIds, o \in Owners : RegisterWorkerHttp(w, o)
    \/ \E w \in WorkerIds : HeartbeatHttp(w)
    \/ WatchdogTick
    \/ Tick

Spec == Init /\ [][Next]_vars

----------------------------------------------------------------------------
(* Slices of Next.  The full population above is far beyond exhaustive     *)
(* exploration, so each property is checked under the slice that holds its  *)
(* actors: the same actions, with their inputs drawn from smaller sets.     *)

\* The ledger: one worker connection whose owner is either user, both users
\* submitting (bob, who can also earn rewards, at the shortest timeout), every
\* exit code and every reported duration.
NextLedger ==
    \/ Connect("c1")
    \/ Disconnect("c1")
    \/ \E o \in Users : Hello("c1", "w1", o, "", TRUE)
    \/ HelloResume("c1")
    \/ \E j \in 1..MaxJobs, x \in ExitCodes, d \in Durations : JobResult("c1", j, x, d)
    \/ Teardown("c1")
    \/ TaskDispatch
    \/ SendOk
    \/ SendFail
    \/ \E t \in Timeouts : SubmitJob("alice", t)
    \/ SubmitJob("bob", 1)

SpecLedger == Init /\ [][NextLedger]_vars

\* The submission: bob's worker on one connection, successful results with
\* every reported duration, both users submitting (bob at the shortest
\* timeout), and submissions whose job creation fails.
NextSubmit ==
    \/ Connect("c1")
    \/ Disconnect("c1")
    \/ Hello("c1", "w1", "bob", "", TRUE)
    \/ HelloResume("c1")
    \/ \E j \in 1..MaxJobs, d \in Durations : JobResult("c1", j, 0, d)
    \/ Teardown("c1")
    \/ TaskDispatch
    \/ SendOk
    \/ SendFail
    \/ \E t \in Timeouts : SubmitJob("alice", t)
    \/ SubmitJob("bob", 1)
    \/ \E u \in Users, t \in Timeouts : SubmitJobFail(u, t)

SpecSubmit == Init /\ [][NextSubmit]_vars

\* The scheduler: one worker connection, one submitter with two jobs, every
\* message of the protocol, the watchdog and the clock.
NextSched ==
    \/ Connect("c1")
    \/ Disconnect("c1")
    \/ Hello("c1", "w1", "bob", "", TRUE)
    \/ HelloResume("c1")
    \/ Hb("c1")
    \/ \E j \in 1..MaxJobs : JobStarted("c1", j)
    \/ \E j \in 1..MaxJobs : JobResult("c1", j, 0, NoDuration)
    \/ Teardown("c1")
    \/ ProtocolError("c1")
    \/ TaskDispatch
    \/ SendOk
    \/ SendFail
    \/ SubmitJob("alice", 1)
    \/ WatchdogTick
    \/ Tick

SpecSched == Init /\ [][NextSched]_vars

\* The requeue paths: two connections that both speak for worker w1 (a
\* reconnect racing the old session) and a single job, which the teardown,
\* the watchdog and a failed send each put back in the queue.
NextRequeue ==
    \/ \E c \in Conns : Connect(c)
    \/ \E c \in Conns : Disconnect(c)
    \/ \E c \in Conns : Hello(c, "w1", "bob", "", TRUE)
    \/ \E c \in Conns : HelloResume(c)
    \/ \E c \in Conns : JobStarted(c, 1)
    \/ \E c \in Conns, x \in ExitCodes, d \in Durations : JobResult(c, 1, x, d)
    \/ \E c \in Conns : Teardown(c)
    \/ TaskDispatch
    \/ SendOk
    \/ SendFail
    \/ \E t \in Timeouts : jobs = <<>> /\ SubmitJob("alice", t)
    \/ WatchdogTick
    \/ Tick

SpecRequeue == Init /\ [][NextRequeue]_vars

\* The watchdog: the same two connections and single job, one exit code and
\* no reported duration.  watchdog_loop is a task of its own that sweeps, sleeps
\* check_interval and sweeps again for ever, swallowing every exception: a
\* sweep that has something to requeue is eventually run.
NextWatchdog ==
    \/ \E c \in Conns : Connect(c)
    \/ \E c \in Conns : Disconnect(c)
    \/ \E c \in Conns : Hello(c, "w1", "bob", "", TRUE)
    \/ \E c \in Conns : HelloResume(c)
    \/ \E c \in Conns : JobStarted(c, 1)
    \/ \E c \in Conns : JobResult(c, 1, 0, NoDuration)
    \/ \E c \in Conns : Teardown(c)
    \/ TaskDispatch
    \/ SendOk
    \/ SendFail
    \/ jobs = <<>> /\ SubmitJob("alice", 1)
    \/ WatchdogTick
    \/ Tick

SpecWatchdog == Init /\ [][NextWatchdog]_vars /\ WF_vars(WatchdogTick)

\* The pick: one connection that registers two workers, one per owner, able
\* to execute or not, and both users submitting.
NextPick ==
    \/ Connect("c1")
    \/ Disconnect("c1")
    \/ \E can \in BOOLEAN : Hello("c1", "w1", "alice", "", can)
    \/ \E can \in BOOLEAN : Hello("c1", "w2", "bob", "", can)
    \/ HelloResume("c1")
    \/ \E j \in 1..MaxJobs : JobResult("c1", j, 0, NoDuration)
    \/ Teardown("c1")
    \/ TaskDispatch
    \/ SendOk
    \/ SendFail
    \/ \E u \in Users : SubmitJob(u, 1)

SpecPick == Init /\ [][NextPick]_vars

\* The authentication: one connection saying hello for either worker id as
\* bob, with no token, token t1 or token t2, and alice's jobs on the workers.
NextAuth ==
    \/ Connect("c1")
    \/ Disconnect("c1")
    \/ \E w \in WorkerIds, tok \in Tokens : Hello("c1", w, "bob", tok, TRUE)
    \/ HelloResume("c1")
    \/ \E j \in 1..MaxJobs : JobResult("c1", j, 0, NoDuration)
    \/ Teardown("c1")
    \/ TaskDispatch
    \/ SendOk
    \/ SendFail
    \/ SubmitJob("alice", 1)

SpecAuth == Init /\ [][NextAuth]_vars

\* Two workers: bob's workers w1 and w2, each on its own connection, and one
\* job of alice; the teardown, the watchdog and the clock.
NextTwo ==
    \/ \E c \in Conns : Connect(c)
    \/ \E c \in Conns : Disconnect(c)
    \/ Hello("c1", "w1", "bob", "", TRUE)
    \/ Hello("c2", "w2", "bob", "", TRUE)
    \/ \E c \in Conns : HelloResume(c)
    \/ \E c \in Conns : JobStarted(c, 1)
    \/ \E c \in Conns : JobResult(c, 1, 0, NoDuration)
    \/ \E c \in Conns : Teardown(c)
    \/ TaskDispatch
    \/ SendOk
    \/ SendFail
    \/ jobs = <<>> /\ SubmitJob("alice", 1)
    \/ WatchdogTick
    \/ Tick

SpecTwo == Init /\ [][NextTwo]_vars

\* The line: bob's worker on one connection that stays open, a longer line of
\* jobs of both users, and the result of the first job.
NextLine ==
    \/ Connect("c1")
    \/ Hello("c1", "w1", "bob", "", TRUE)
    \/ HelloResume("c1")
    \/ JobResult("c1", 1, 0, NoDuration)
    \/ TaskDispatch
    \/ SendOk
    \/ \E u \in Users : SubmitJobLine(u, 1)

SpecLine == Init /\ [][NextLine]_vars

\* The failing store: bob's worker on one connection, alice's two jobs, and
\* dispatch() calls under which a store statement raises.
NextFault ==
    \/ Connect("c1")
    \/ Disconnect("c1")
    \/ Hello("c1", "w1", "bob", "", TRUE)
    \/ HelloResume("c1")
    \/ \E j \in 1..MaxJobs : JobResult("c1", j, 0, NoDuration)
    \/ Teardown("c1")
    \/ TaskDispatch
    \/ DispatchRaise
    \/ SendOk
    \/ SendFail
    \/ SubmitJob("alice", 1)

SpecFault == Init /\ [][NextFault]_vars

\* The tokens: two connections, each saying hello for its own worker id as
\* bob with no token, token t1 or token t2, the HTTP registration of bob's
\* workers, and alice's jobs, whose sends hold the lock while hellos arrive.
NextTokens ==
    \/ \E c \in Conns : Connect(c)
    \/ \E tok \in Tokens : Hello("c1", "w1", "bob", tok, TRUE)
    \/ \E tok \in Tokens : Hello("c2", "w2", "bob", tok, TRUE)
    \/ \E c \in Conns : HelloResume(c)
    \/ \E w \in WorkerIds : RegisterWorkerHttp(w, "bob")
    \/ TaskDispatch
    \/ SendOk
    \/ SubmitJob("alice", 1)

SpecTokens == Init /\ [][NextTokens]_vars

----------------------------------------------------------------------------
(* Properties *)

JobIds == 1..Len(jobs)

JobsOf(u) == {j \in JobIds : jobs[j].user_id = u}

InQueue(j) == \E i \in 1..Len(job_queue) : job_queue[i] = j

\* the balance a submission by u works on: ensure_user() creates the row first
BalanceAtSubmit(u) ==
    IF u \in DOMAIN user_credits THEN user_credits[u] ELSE DEFAULT_INITIAL_BALANCE

Reserves == {get_max_reserve(t) : t \in Timeouts}

\* the owner the registry holds for worker w
RegOwner(reg, w) == reg[EntryIndex(reg, w)].owner_id

(* ---- C1 ---- *)

RECURSIVE SumOver(_, _)
SumOver(f, S) ==
    IF S = {} THEN 0
    ELSE LET j == CHOOSE k \in S : TRUE IN f[j] + SumOver(f, S \ {j})

C1_State ==
    \A u \in DOMAIN user_credits :
        /\ user_credits[u] >= 0
        /\ user_credits[u] = hist.inflow[u] - SumOver(hist.debited, JobsOf(u))
        /\ \A C \in Reserves :
               (\A j \in JobsOf(u) : hist.debited[j] = C)
                   => Cardinality(JobsOf(u)) <= hist.inflow[u] \div C

C1_Step ==
    /\ Len(jobs') = Len(jobs) + 1 =>
         LET j == Len(jobs')
             u == jobs'[j].user_id
             C == jobs'[j].cost
         IN  /\ C \in Reserves
             /\ BalanceAtSubmit(u) >= C
             /\ user_credits'[u] = BalanceAtSubmit(u) - C
             /\ \A v \in DOMAIN user_credits \ {u} : user_credits'[v] = user_credits[v]
    /\ \A u \in Users :
         (~hist.rejected[u] /\ hist'.rejected[u]) =>
             /\ Len(jobs') = Len(jobs)
             /\ \E C \in Reserves : BalanceAtSubmit(u) < C
             /\ user_credits'[u] = BalanceAtSubmit(u)
             /\ \A v \in DOMAIN user_credits : user_credits'[v] = user_credits[v]

\* C1: every balance is >= 0 in every reachable state and equals what the
\* user was given (the starting balance and every later credit) less the
\* reservations of the user's jobs; a submission that succeeds finds a balance
\* of at least its reservation C and debits exactly C from the submitter and
\* nothing from anyone else; a submission that finds less than C is rejected
\* and debits nothing; so a user who was given B in all and reserved C per job
\* has at most floor(B/C) jobs.
C1_BalanceNeverNegative == []C1_State /\ [][C1_Step]_vars

\* a user who was given B, had floor(B/C) >= 1 submissions accepted, each
\* debiting C, and was then refused
C1_Witness ==
    \E u \in Users, C \in Reserves :
        /\ hist.rejected[u]
        /\ JobsOf(u) # {}
        /\ \A j \in JobsOf(u) : hist.debited[j] = C
        /\ Cardinality(JobsOf(u)) = hist.inflow[u] \div C
        /\ user_credits[u] = hist.inflow[u] - C * Cardinality(JobsOf(u))
        /\ user_credits[u] < C

(* ---- C2 ---- *)

\* C2: for every job that was assigned to a worker and reached status
\* completed, the amount debited at submission minus the amount refunded at
\* settlement equals compute_cost of the reported duration.
C2_NetChargeIsActualCost ==
    \A j \in JobIds :
        (jobs[j].status = "completed" /\ jobs[j].worker_id # NoWorker)
            => hist.debited[j] - hist.refunded[j] = compute_cost(jobs[j].duration_seconds)

(* ---- C3 ---- *)

C3_Step ==
    /\ \A j \in JobIds : hist'.debited[j] = hist.debited[j]
    /\ Len(jobs') = Len(jobs) + 1 =>
         LET j == Len(jobs')
             u == jobs'[j].user_id
         IN  /\ hist'.debited[j] = jobs'[j].cost
             /\ user_credits'[u] = BalanceAtSubmit(u) - hist'.debited[j]
    /\ Len(jobs') = Len(jobs) =>
         \A u \in DOMAIN user_credits : user_credits'[u] >= user_credits[u]
    /\ (Len(jobs') = Len(jobs) /\ hist'.nresults = hist.nresults
                               /\ hist'.rejected = hist.rejected)
         => user_credits' = user_credits

\* C3: the only step that lowers a balance is the submission that creates
\* the job, and it lowers the submitter's balance by the reservation once;
\* every step that is neither a submission nor a job_result (a teardown, a
\* watchdog sweep, a failed send, an assignment, a dispatch) leaves every
\* balance as it was, however often it requeues the job.
C3_DebitedOnce == [][C3_Step]_vars

\* a job that was requeued, assigned again and completed, its submitter
\* holding the initial balance less the one reservation plus the refund
C3_Witness ==
    \E j \in JobIds :
        /\ jobs[j].status = "completed"
        /\ jobs[j].worker_id # NoWorker
        /\ hist.requeued[j]
        /\ hist.debited[j] \in Reserves
        /\ JobsOf(jobs[j].user_id) = {j}
        /\ user_credits[jobs[j].user_id] =
               DEFAULT_INITIAL_BALANCE - hist.debited[j] + hist.refunded[j]
        /\ hist.inflow[jobs[j].user_id] = DEFAULT_INITIAL_BALANCE + hist.refunded[j]

(* ---- C4 ---- *)

\* round(clamp(d * cost_per_second, min_cost, max_cost) * reward_ratio, 4) for a
\* duration d in 1e-4 s: d * cost_per_second is d / COST_PER_SECOND_DEN ticks
ClaimedReward(d) ==
    LET raw == IF d = NoDuration \/ d < 0 THEN MIN_COST * COST_PER_SECOND_DEN ELSE d
        clamped == Max(MIN_COST * COST_PER_SECOND_DEN,
                       Min(MAX_COST * COST_PER_SECOND_DEN, raw))
    IN  RoundDiv(clamped * REWARD_RATIO_PCT, 100 * COST_PER_SECOND_DEN)

\* C4: for every completed job whose executing worker has a known owner
\* other than the submitter, the credits paid out as reward for that job are
\* exactly round(clamp(d * cost_per_second, min_cost, max_cost) * reward_ratio, 4),
\* d being the reported duration.
C4_OwnerRewardExact ==
    \A j \in JobIds :
        LET w == jobs[j].worker_id
        IN  (/\ jobs[j].status = "completed"
             /\ w # NoWorker
             /\ w \in DOMAIN workers
             /\ workers[w].owner_id # ""
             /\ workers[w].owner_id # jobs[j].user_id)
                => hist.rewarded[j] = ClaimedReward(jobs[j].duration_seconds)

(* ---- C5 ---- *)

\* C5: no settlement credits the reward of a job to the user who submitted it.
C5_NoRewardToSubmitter == \A j \in JobIds : hist.selfpaid[j] = 0

(* ---- C6 ---- *)

C6_State ==
    sending # NoSend =>
        /\ JobExists(St, sending.job)
        /\ HasEntry(workers_ws, sending.wid)
        /\ RegOwner(workers_ws, sending.wid) # jobs[sending.job].user_id

C6_Step ==
    \A j \in 1..Len(jobs') :
        LET before == IF j \in JobIds THEN jobs[j].worker_id ELSE NoWorker
            w      == jobs'[j].worker_id
        IN  (w # NoWorker /\ w # before) =>
                /\ sending'.job = j
                /\ sending'.wid = w
                /\ HasEntry(workers_ws', w)
                /\ RegOwner(workers_ws', w) # jobs'[j].user_id

\* C6: whenever dispatch() is sending assign_job for a job, the worker it
\* picked is registered with an owner other than the job's submitter; and a
\* job row gets a worker only in a step that ends in such a send.  So a job
\* whose submitter owns every idle, can-execute worker stays queued, unsent.
C6_NeverOwnWorker == []C6_State /\ [][C6_Step]_vars

\* dispatch() has run and returned, leaving in the queue a job that was
\* never assigned although a worker of its submitter is idle and can execute
C6_Witness ==
    \E j \in JobIds :
        /\ jobs[j].status = "queued"
        /\ ~hist.requeued[j]
        /\ InQueue(j)
        /\ lock = NoTask
        /\ tasks = 0
        /\ \E i \in 1..Len(workers_ws) : Eligible(workers_ws[i], "")
        /\ \A i \in 1..Len(workers_ws) :
               Eligible(workers_ws[i], "") => workers_ws[i].owner_id = jobs[j].user_id

(* ---- C7 ---- *)

\* C7: of two jobs of the same submitter, hence eligible for the same
\* workers, the later one is never being assigned while the earlier one is
\* still queued without ever having been assigned.
C7_FifoAmongEligible ==
    \A j1, j2 \in JobIds :
        (/\ j1 < j2
         /\ jobs[j1].user_id = jobs[j2].user_id
         /\ sending.job = j2
         /\ jobs[j2].worker_id = sending.wid)
            => ~(/\ jobs[j1].status = "queued"
                 /\ jobs[j1].started_at = NULL
                 /\ ~hist.requeued[j1]
                 /\ InQueue(j1))

(* ---- C8 ---- *)

\* C8: in every reachable state at most one running job has a given worker-id.
C8_OneRunningJobPerWorker ==
    \A w \in WorkerIds :
        Cardinality({j \in JobIds : jobs[j].status = "running" /\ jobs[j].worker_id = w}) <= 1

(* ---- C9 ---- *)

\* C9: in every reachable state a running job has a non-null worker-id that
\* names a row of the workers table.
C9_RunningJobHasWorker ==
    \A j \in JobIds :
        jobs[j].status = "running"
            => (jobs[j].worker_id # NoWorker /\ jobs[j].worker_id \in DOMAIN workers)

(* ---- C10 ---- *)

\* C10: in every reachable state a queued job has a null worker-id, a null
\* started-at and a null completed-at.
C10_QueuedJobIsClean ==
    \A j \in JobIds :
        jobs[j].status = "queued"
            => /\ jobs[j].worker_id = NoWorker
               /\ jobs[j].started_at = NULL
               /\ jobs[j].completed_at = NULL

(* ---- C11 ---- *)

Live(c) == sess[c].st \in {"open", "closing"}

\* C11: in every reachable state a worker-id has a registry entry only if
\* some live session speaks for it, and every live session that completed
\* hello for a worker-id has that worker-id in the registry.
C11_RegistryIffLiveSession ==
    \A w \in WorkerIds :
        /\ HasEntry(workers_ws, w) => \E c \in Conns : Live(c) /\ sess[c].worker_id = w
        /\ (\E c \in Conns : Live(c) /\ sess[c].pc # "hello" /\ sess[c].worker_id = w)
               => HasEntry(workers_ws, w)

(* ---- C12 ---- *)

\* C12: in every reachable state the cost stored on a job row is the amount
\* that was debited from the submitter when the job was created.
C12_ReservedCostWrittenOnce == \A j \in JobIds : jobs[j].cost = hist.debited[j]

(* ---- C13 ---- *)

\* C13: whenever a session ends, the registry keeps no entry held by its
\* connection; and if the session had completed hello for worker w, then w has
\* no registry entry, the row of w is offline, and every job that was running
\* on w is queued with no worker and is in job_queue.
C13_Step ==
    \A c \in Conns :
        (Live(c) /\ sess'[c].st = "free") =>
            /\ \A i \in 1..Len(workers_ws') : workers_ws'[i].ws # c
            /\ sess[c].worker_id # NoWorker =>
                 LET w == sess[c].worker_id
                 IN  /\ ~HasEntry(workers_ws', w)
                     /\ w \in DOMAIN workers' /\ workers'[w].status = "offline"
                     /\ \A j \in JobIds :
                            (jobs[j].status = "running" /\ jobs[j].worker_id = w)
                                => /\ jobs'[j].status = "queued"
                                   /\ jobs'[j].worker_id = NoWorker
                                   /\ \E i \in 1..Len(job_queue') : job_queue'[i] = j

C13_TeardownOnEverySessionEnd == [][C13_Step]_vars

(* ---- C14 ---- *)

AtRest ==
    /\ job_queue = <<>>
    /\ lock = NoTask
    /\ sending = NoSend
    /\ tasks = 0
    /\ workers_ws = <<>>
    /\ \A c \in Conns : sess[c].st = "free"

\* C14: in every reachable state with an empty job_queue, no dispatch() in
\* progress or waiting and no session in the registry, no job is running.
C14_NoOrphanRunningJob == AtRest => \A j \in JobIds : jobs[j].status # "running"

(* ---- C15 ---- *)

\* job j is running, its worker has no registry entry and the worker row's
\* last heartbeat is missing or older than heartbeat_timeout
WatchdogDue(j) ==
    /\ j \in JobIds
    /\ jobs[j].status = "running"
    /\ jobs[j].worker_id # NoWorker
    /\ ~HasEntry(workers_ws, jobs[j].worker_id)
    /\ \/ jobs[j].worker_id \notin DOMAIN workers
       \/ workers[jobs[j].worker_id].last_heartbeat = NULL
       \/ clock - workers[jobs[j].worker_id].last_heartbeat > heartbeat_timeout

C15_State ==
    \A j \in JobIds :
        WatchdogDue(j) =>
            LET w == jobs[j].worker_id
                s == watchdog_sweep(St, St, 1)
            IN  /\ s.jobs[j].status = "queued"
                /\ s.jobs[j].worker_id = NoWorker
                /\ w \in DOMAIN s.workers /\ s.workers[w].status = "offline"
                /\ \E i \in 1..Len(s.job_queue) : s.job_queue[i] = j
                /\ Len(s.job_queue) = Len(job_queue) + Cardinality({k \in JobIds : WatchdogDue(k)})

\* C15: from every reachable state, a watchdog sweep leaves each job that
\* is running on a worker without registry entry and with a missing or stale
\* heartbeat queued with no worker, its worker row offline and its id appended
\* to job_queue; and, the watchdog being scheduled fairly, no job stays in that
\* condition for ever.
C15_WatchdogRecovery ==
    /\ []C15_State
    /\ \A j \in 1..MaxJobs : WatchdogDue(j) ~> ~WatchdogDue(j)

\* a job the watchdog took from a silent worker and put back in the queue
C15_Witness ==
    \E j \in JobIds :
        /\ hist.swept[j]
        /\ jobs[j].status = "queued"
        /\ jobs[j].worker_id = NoWorker
        /\ InQueue(j)
        /\ clock > 1 + heartbeat_timeout
        /\ ~HasEntry(workers_ws, "w1")
        /\ workers["w1"].status = "offline"

(* ---- C16 ---- *)

Store == <<jobs, workers, user_credits, user_auth>>

C16_State ==
    \A c \in Conns, w \in WorkerIds, o \in Users, tok \in Tokens \ {""}, can \in BOOLEAN :
        (Reading(c) /\ o \in DOMAIN user_auth /\ user_auth[o] # tok) =>
            LET s == hello(St, c, w, o, tok, can)
            IN  /\ s.sess[c].st = "free"
                /\ <<s.jobs, s.workers, s.user_credits, s.user_auth>> = Store
                /\ s.workers_ws = workers_ws
                /\ s.job_queue = job_queue
                /\ s.tasks = tasks /\ s.lock = lock

C16_Step ==
    (~hist.authfail /\ hist'.authfail) =>
        /\ Store' = Store
        /\ workers_ws' = workers_ws
        /\ job_queue' = job_queue
        /\ \E c \in Conns : Live(c) /\ sess'[c].st = "free"

\* C16: from every reachable state, a hello on a connection that names an
\* owner with a user_auth row and carries a non-empty token other than the
\* stored one closes the connection and leaves jobs, workers, user_credits,
\* user_auth, the registry and job_queue exactly as they were; and the step
\* that handles the first such hello changes none of them.
C16_AuthRejectionStateless == []C16_State /\ [][C16_Step]_vars

\* a hello was rejected after bob had registered a token and a worker row
C16_Witness ==
    /\ hist.authfail
    /\ "bob" \in DOMAIN user_auth
    /\ \E w \in DOMAIN workers : workers[w].owner_id = "bob"
    /\ workers_ws # <<>>

(* ---- C17 ---- *)

Transitions ==
    {<<"queued", "running">>, <<"running", "completed">>, <<"running", "failed">>,
     <<"running", "queued">>}

C17_Step ==
    \A j \in JobIds :
        \/ jobs'[j].status = jobs[j].status
        \/ <<jobs[j].status, jobs'[j].status>> \in Transitions

\* C17: every step changes the status of a job only from queued to
\* running, from running to completed or failed, or from running to queued; a
\* completed or failed job keeps its status.
C17_StatusTransitions == [][C17_Step]_vars

(* ---- C18 ---- *)

\* C18: from every reachable state, a job_result that a session sends for
\* a job whose row does not name that session's worker leaves the job's
\* status, completion time, worker and duration, and every balance, as they
\* were (on_job_result alone, before the dispatch() that follows it).
C18_StaleResultIgnored ==
    \A c \in Conns, j \in JobIds, x \in ExitCodes, d \in Durations :
        (/\ Reading(c)
         /\ lock = NoTask
         /\ sess[c].worker_id # NoWorker
         /\ jobs[j].worker_id # sess[c].worker_id) =>
            LET s == on_job_result(message_preamble(St, c), j, sess[c].worker_id, x, d)
            IN  /\ s.jobs[j].status = jobs[j].status
                /\ s.jobs[j].completed_at = jobs[j].completed_at
                /\ s.jobs[j].worker_id = jobs[j].worker_id
                /\ s.jobs[j].duration_seconds = jobs[j].duration_seconds
                /\ s.user_credits = user_credits

(* ---- C19 ---- *)

C19_State ==
    \A u \in DOMAIN user_credits, t \in Timeouts :
        user_credits[u] < get_max_reserve(t) =>
            LET s == submit_job(St, u, t)
            IN  /\ s.hist.rejected[u]
                /\ s.user_credits = user_credits
                /\ s.jobs = jobs
                /\ s.job_queue = job_queue
                /\ s.tasks = tasks /\ s.lock = lock /\ s.sending = sending

C19_Step ==
    \A u \in Users :
        (~hist.rejected[u] /\ hist'.rejected[u]) =>
            /\ u \in DOMAIN user_credits
            /\ \E t \in Timeouts : user_credits[u] < get_max_reserve(t)
            /\ user_credits' = user_credits
            /\ jobs' = jobs
            /\ job_queue' = job_queue
            /\ tasks' = tasks

\* C19: from every reachable state, a submission by a user whose balance
\* is below the reservation of the request is refused and leaves every balance,
\* the jobs table and job_queue as they were and starts no dispatch(); and the
\* step in which a user is first refused found the balance below a reservation
\* and changed no balance, no job row and no queue entry.
C19_InsufficientCredits == []C19_State /\ [][C19_Step]_vars

\* a user with a balance below the smallest reservation has been refused,
\* and has as many job rows and debits as before
C19_Witness ==
    \E u \in DOMAIN user_credits :
        /\ hist.rejected[u]
        /\ \A t \in Timeouts : user_credits[u] < get_max_reserve(t)
        /\ user_credits[u] = hist.inflow[u] - SumOver(hist.debited, JobsOf(u))
        /\ JobsOf(u) # {}

(* ---- C20 ---- *)

C20_State ==
    \A u \in Users, t \in Timeouts :
        BalanceAtSubmit(u) >= get_max_reserve(t) =>
            LET s == submit_job_failing(St, u, t)
            IN  /\ s.hist.failed500
                /\ s.user_credits[u] = BalanceAtSubmit(u)
                /\ \A v \in DOMAIN user_credits : s.user_credits[v] = user_credits[v]
                /\ s.jobs = jobs
                /\ s.job_queue = job_queue
                /\ s.tasks = tasks /\ s.lock = lock /\ s.sending = sending

C20_Step ==
    (~hist.failed500 /\ hist'.failed500) =>
        /\ jobs' = jobs
        /\ job_queue' = job_queue
        /\ \A u \in DOMAIN user_credits : user_credits'[u] = user_credits[u]
        /\ \A u \in DOMAIN user_credits' : user_credits'[u] = BalanceAtSubmit(u)

\* C20: from every reachable state, a submission that passes the balance
\* check and whose job creation then fails leaves the submitter's balance at
\* the value the request found (the initial balance for a user without a row),
\* every other balance, the jobs table and job_queue as they were; and the step
\* of the first such failure changed no balance, job row or queue entry.
C20_RefundOnCreationFailure == []C20_State /\ [][C20_Step]_vars

\* a job creation has failed for a user who holds reservations of other
\* jobs, and the balance is what was given less those reservations alone
C20_Witness ==
    /\ hist.failed500
    /\ \E u \in DOMAIN user_credits :
           /\ JobsOf(u) # {}
           /\ user_credits[u] = hist.inflow[u] - SumOver(hist.debited, JobsOf(u))
           /\ user_credits[u] < DEFAULT_INITIAL_BALANCE

(* ---- C21 ---- *)

\* worker W was accepted with owner o and token tok, and no session speaks for it
AcceptedAndGone(W, o, tok) ==
    /\ W \in DOMAIN workers
    /\ workers[W].owner_id = o
    /\ hist.wtoken[W] = tok
    /\ \A V \in DOMAIN workers \ {W} : hist.wtoken[V] # tok
    /\ db_verify_user_auth(St, o, tok)
    /\ \A c \in Conns : sess[c].worker_id # W
    /\ ~HasEntry(workers_ws, W)

\* C21: from every reachable state in which worker W was accepted with
\* owner O and token T and its session has ended, a hello with owner O and
\* token T, whatever worker-id it carries, is given worker-id W, creates no
\* worker row and refreshes the last heartbeat of the row of W.
C21_ReconnectReuse ==
    \A c \in Conns, W \in WorkerIds, o \in Users, tok \in Tokens \ {""}, w \in WorkerIds :
        (Reading(c) /\ sess[c].st = "open" /\ lock = NoTask /\ AcceptedAndGone(W, o, tok)) =>
            LET s == hello(St, c, w, o, tok, TRUE)
            IN  /\ s.sess[c].worker_id = W
                /\ DOMAIN s.workers = DOMAIN workers
                /\ s.workers[W].last_heartbeat = clock

(* ---- C22 ---- *)

\* a registered worker that dispatch() would pick for job j and whose
\* connection is open
EligibleConnected(reg, ss, j) ==
    \E i \in 1..Len(reg) :
        /\ Eligible(reg[i], jobs[j].user_id)
        /\ ss[reg[i].ws].st = "open"

\* a step of the teardown or of the watchdog (neither holds the lock before
\* or after) that takes job j from running back to queued
RequeuedByCleanup(j) ==
    /\ lock = NoTask /\ lock' = NoTask
    /\ jobs[j].status = "running"
    /\ jobs'[j].status = "queued"
    /\ \E i \in 1..Len(job_queue') : job_queue'[i] = j

C22_Step ==
    \A j \in JobIds :
        (RequeuedByCleanup(j) /\ EligibleConnected(workers_ws', sess', j))
            => tasks' > tasks

\* C22: a step of the session teardown or of the watchdog that puts a
\* running job back on job_queue while an eligible idle worker is connected
\* also starts a dispatch().
C22_RequeueReentersDispatcher == [][C22_Step]_vars

(* ---- C23 ---- *)

\* job j waits in the queue and every idle worker able to execute belongs to
\* its submitter (and there is one)
SelfBlocked(j) ==
    /\ jobs[j].status = "queued"
    /\ jobs[j].worker_id = NoWorker
    /\ InQueue(j)
    /\ \E i \in 1..Len(workers_ws) : Eligible(workers_ws[i], "")
    /\ \A i \in 1..Len(workers_ws) :
           Eligible(workers_ws[i], "") => workers_ws[i].owner_id = jobs[j].user_id

C23_State ==
    \A j \in JobIds, c \in Conns, w \in WorkerIds, o \in Users :
        (/\ SelfBlocked(j)
         /\ Head(job_queue) = j
         /\ Reading(c) /\ sess[c].st = "open"
         /\ lock = NoTask
         /\ o # jobs[j].user_id) =>
            LET s == hello(St, c, w, o, "", TRUE)
            IN  /\ s.jobs[j].status = "running"
                /\ s.jobs[j].worker_id = w
                /\ s.sending.job = j /\ s.sending.wid = w /\ s.sending.ws = c
                /\ s.workers_ws[EntryIndex(s.workers_ws, w)].status = "busy"

C23_Step ==
    \A j \in JobIds :
        (SelfBlocked(j) /\ jobs'[j] # jobs[j]) =>
            /\ jobs'[j].status = "running"
            /\ sending'.job = j
            /\ sending'.wid = jobs'[j].worker_id
            /\ HasEntry(workers_ws', sending'.wid)
            /\ RegOwner(workers_ws', sending'.wid) # jobs[j].user_id
            /\ \/ ~HasEntry(workers_ws, sending'.wid)
               \/ ~Eligible(workers_ws[EntryIndex(workers_ws, sending'.wid)], jobs[j].user_id)

\* C23: a queued job whose submitter owns every idle worker keeps its row
\* unchanged in every step except one in which a worker that was not available
\* to it before is registered with another owner and the job is assigned to
\* that worker; and from every reachable state, the hello of a worker of
\* another owner assigns the job at the head of the queue to that worker
\* (status running, worker-id the new worker, assign_job being sent to it).
C23_SelfDealingLiveness == []C23_State /\ [][C23_Step]_vars

(* ---- C24 ---- *)

\* C24: in no reachable state does a dispatch() hold the lock, suspended
\* in the send of assign_job, while the hello of a session waits for that lock.
C24_LockNotHeldAcrossSend ==
    ~(/\ sending # NoSend
      /\ lock # NoTask
      /\ \E c \in Conns : sess[c].pc = "hello")

(* ---- C25 ---- *)

C25_State ==
    /\ sending # NoSend => lock # NoTask
    /\ \A c \in Conns : sess[c].pc = "dispatch" <=> lock = c
    /\ lock = NoTask => sending = NoSend
    /\ lock # NoTask => sending # NoSend

C25_Step ==
    \A j \in JobIds :
        (jobs[j].status = "queued" /\ jobs'[j].status = "running"
                                  /\ jobs'[j].worker_id # NoWorker)
            => /\ lock' # NoTask
               /\ sending'.job = j
               /\ lock # NoTask => lock' = lock

\* C25: in every reachable state at most one dispatch() is inside the
\* pairing loop: a send of assign_job is in progress exactly when the lock is
\* held, a session is inside dispatch() exactly when it is the holder, and a
\* step that assigns a queued job is taken by the holder of the lock; every
\* other caller waits.
C25_DispatchNonReentrant == []C25_State /\ [][C25_Step]_vars

\* a dispatch() is suspended in its send, holding the lock, while another
\* dispatch() waits and one more job is queued
C25_Witness ==
    /\ sending # NoSend
    /\ lock # NoTask
    /\ tasks > 0
    /\ \E j \in JobIds : j # sending.job /\ jobs[j].status = "queued" /\ InQueue(j)

(* ---- C26 ---- *)

\* C26: from every reachable state in which the lock is free and
\* job_queue holds exactly one id, of a job whose status is not queued, a
\* dispatch() marks no worker busy and sends no assign_job.
C26_SkipsNonQueuedJob ==
    \A j \in JobIds :
        (lock = NoTask /\ job_queue = <<j>> /\ jobs[j].status # "queued") =>
            LET s == dispatch(St, AnonTask)
            IN  /\ s.sending = NoSend
                /\ s.workers_ws = workers_ws

(* ---- C27 ---- *)

\* C27: from every reachable state in which the lock is free and the
\* head of job_queue is a job that is no longer queued, a dispatch() leaves
\* every worker's status as it was in the registry and in the store, does not
\* send that job, and takes the job out of the queue.
C27_CasFailureRevertsWorker ==
    \A j \in JobIds :
        (/\ lock = NoTask
         /\ job_queue # <<>>
         /\ Head(job_queue) = j
         /\ \A i \in 2..Len(job_queue) : job_queue[i] # j
         /\ jobs[j].status # "queued") =>
            LET s == dispatch(St, AnonTask)
            IN  /\ s.sending.job # j
                /\ \A i \in 1..Len(workers_ws) :
                       s.sending.wid # workers_ws[i].wid
                           => s.workers_ws[i].status = workers_ws[i].status
                /\ \A w \in DOMAIN workers :
                       s.sending.wid # w => s.workers[w].status = workers[w].status
                /\ \A i \in 1..Len(s.job_queue) : s.job_queue[i] # j

(* ---- C28 ---- *)

Occurrences(q, j) == Cardinality({i \in 1..Len(q) : q[i] = j})

C28_State ==
    sending # NoSend =>
        LET j == sending.job
            w == sending.wid
            s == dispatch_revert(St, j, w)
        IN  /\ HasEntry(s.workers_ws, w) => RegStatus(s, w) = "idle"
            /\ w \in DOMAIN s.workers => s.workers[w].status = "idle"
            /\ s.jobs[j].status = "queued"
            /\ s.jobs[j].worker_id = NoWorker
            /\ Occurrences(s.job_queue, j) = 1
            /\ s.job_queue[Len(s.job_queue)] = j
            /\ s.lock = NoTask /\ s.sending = NoSend

C28_Step ==
    (sending # NoSend /\ lock' = NoTask) =>
        \/ /\ sess[sending.ws].st # "open"
           /\ jobs'[sending.job].status = "queued"
           /\ jobs'[sending.job].worker_id = NoWorker
           /\ Occurrences(job_queue', sending.job) = 1
           /\ HasEntry(workers_ws', sending.wid) => RegStatus(St', sending.wid) = "idle"
           /\ workers'[sending.wid].status = "idle"
        \/ /\ sess[sending.ws].st = "open"
           /\ jobs'[sending.job] = jobs[sending.job]

\* C28: from every reachable state in which dispatch() is sending
\* assign_job, a failure of the send leaves the picked worker idle in the
\* registry and in the store, the job queued with no worker and its id exactly
\* once on job_queue, as the last entry, and dispatch() returned; and every step
\* that ends such a dispatch() after a failed send has done exactly that.
C28_SendFailureRequeues == []C28_State /\ [][C28_Step]_vars

\* dispatch() is suspended in a send to a worker whose connection has closed,
\* so the send fails, while another job waits on the queue
C28_Witness ==
    /\ sending # NoSend
    /\ sess[sending.ws].st # "open"
    /\ job_queue # <<>>
    /\ jobs[sending.job].status = "running"
    /\ jobs[sending.job].worker_id = sending.wid
    /\ RegStatus(St, sending.wid) = "busy"

(* ---- C29 ---- *)

\* C29: whenever an assign_job message is in flight, the timeout it carries
\* equals the timeout the job was submitted with, from which its reservation
\* was computed.
C29_AssignTimeoutIsSubmitted ==
    sending # NoSend =>
        sending.limits.timeout_s = jobs[sending.job].limits.timeout_s

(* ---- C30 ---- *)

\* C30: from every reachable state, on_job_started(job_id) leaves the
\* job's status and worker-id as they were, keeps a started-at that is already
\* set, sets a missing started-at to the current time, and changes no other
\* table.
C30_StartedSetsOnlyStartedAt ==
    \A j \in JobIds :
        LET s == on_job_started(St, j)
        IN  /\ s.jobs[j].status = jobs[j].status
            /\ s.jobs[j].worker_id = jobs[j].worker_id
            /\ s.jobs[j].started_at =
                   IF jobs[j].started_at # NULL THEN jobs[j].started_at ELSE clock
            /\ \A k \in JobIds \ {j} : s.jobs[k] = jobs[k]
            /\ s.workers = workers /\ s.user_credits = user_credits

(* ---- C31 ---- *)

\* session c reports the result of job j, which is running on its worker w
ResultOfOwnJob(c, w, j) ==
    /\ Reading(c)
    /\ lock = NoTask
    /\ sess[c].worker_id = w
    /\ get_worker_ws(St, w) = c
    /\ jobs[j].status = "running"
    /\ jobs[j].worker_id = w
    /\ \A i \in 1..Len(job_queue) : jobs[job_queue[i]].status = "queued"

\* the queue positions, in state s, of the queued jobs worker w may be given
EligiblePositions(s, w) ==
    LET e == s.workers_ws[EntryIndex(s.workers_ws, w)]
    IN  {i \in 1..Len(s.job_queue) :
            /\ JobExists(s, s.job_queue[i])
            /\ s.jobs[s.job_queue[i]].status = "queued"
            /\ Eligible([e EXCEPT !.status = "idle"], s.jobs[s.job_queue[i]].user_id)}

\* every dispatch() task that waits is run, as far as the lock is free
RECURSIVE RunTasks(_)
RunTasks(s) ==
    IF s.tasks > 0 /\ s.lock = NoTask
    THEN RunTasks(dispatch([s EXCEPT !.tasks = @ - 1], AnonTask))
    ELSE s

\* the handler's own dispatch(), then the one on_job_result created as a task
AfterResult(c, j, x, d) == RunTasks(job_result(St, c, j, x, d))

\* C31: in every reachable state whose job_queue holds queued jobs only, when
\* a session reports the result of a job that is running on its worker,
\* handling the message leaves one more
\* dispatch() task created, and once the handler's dispatch() and that task
\* have run, the oldest queued job the worker is eligible for is running on
\* that worker; when there is no such job the worker is idle in the registry
\* and in the store.
C31_ResultFreesWorkerAndDispatches ==
    \A c \in Conns, w \in WorkerIds, j \in JobIds :
        ResultOfOwnJob(c, w, j) =>
            LET r   == job_result(St, c, j, 0, NoDuration)
                s   == AfterResult(c, j, 0, NoDuration)
                pos == EligiblePositions(St, w)
            IN  /\ r.tasks + (IF r.lock = NoTask THEN 0 ELSE 0) >= tasks
                /\ IF pos = {}
                   THEN /\ RegStatus(s, w) = "idle"
                        /\ s.workers[w].status = "idle"
                   ELSE LET k == job_queue[CHOOSE i \in pos : \A m \in pos : i <= m]
                        IN  /\ s.jobs[k].status = "running"
                            /\ s.jobs[k].worker_id = w
                            /\ RegStatus(s, w) = "busy"

(* ---- C32 ---- *)

Counted(exit_code) == IF exit_code = 0 THEN 1 ELSE 0

C32_State ==
    \A j \in JobIds, x \in ExitCodes :
        LET w == jobs[j].worker_id
            s == db_set_job_completed(St, j, x)
        IN  /\ s.jobs[j].status = (IF x = 0 THEN "completed" ELSE "failed")
            /\ s.jobs[j].completed_at = clock
            /\ s.jobs[j].exit_code = x
            /\ \A k \in JobIds \ {j} : s.jobs[k] = jobs[k]
            /\ DOMAIN s.workers = DOMAIN workers
            /\ \A v \in DOMAIN workers :
                   IF v = w
                   THEN /\ s.workers[v].status = "idle"
                        /\ s.workers[v].jobs_completed =
                               workers[v].jobs_completed + Counted(x)
                   ELSE s.workers[v] = workers[v]

C32_Step ==
    \A w \in DOMAIN workers :
        workers'[w].jobs_completed # workers[w].jobs_completed =>
            /\ hist'.nresults = hist.nresults + 1
            /\ workers'[w].jobs_completed = workers[w].jobs_completed + 1
            /\ \E j \in JobIds :
                   /\ jobs[j].worker_id = w
                   /\ jobs'[j].status = "completed"
                   /\ jobs'[j].exit_code = 0
                   /\ jobs'[j].completed_at = clock

\* C32: from every reachable state, completing a job with exit code x sets its
\* status to completed when x is 0 and to failed otherwise, records
\* completed-at and the reported outputs, sets the worker recorded on the job
\* row idle and adds one to that worker's jobs-completed exactly when x is 0,
\* leaving every other row alone; and jobs-completed changes in no other way.
C32_CompleteJob == []C32_State /\ [][C32_Step]_vars

\* a worker has both completed a job and failed one: only the first counted
C32_Witness ==
    \E w \in DOMAIN workers, j \in JobIds :
        /\ workers[w].jobs_completed = 1
        /\ hist.nresults = 2
        /\ jobs[j].status = "failed"
        /\ jobs[j].exit_code = 1
        /\ jobs[j].worker_id = w

(* ---- C33 ---- *)

LiveWorker(j) == HasEntry(workers_ws, jobs[j].worker_id)

FreshWorker(j) ==
    /\ jobs[j].worker_id \in DOMAIN workers
    /\ workers[jobs[j].worker_id].last_heartbeat # NULL
    /\ clock - workers[jobs[j].worker_id].last_heartbeat <= heartbeat_timeout

\* C33: from every reachable state, a watchdog tick leaves alone every
\* running job whose worker has a registry entry and every running job whose
\* worker row has a last-heartbeat within heartbeat_timeout: the job row and
\* the worker row are unchanged and the job id is not put on job_queue.
C33_WatchdogSparesLiveAndFresh ==
    \A j \in JobIds :
        (/\ jobs[j].status = "running"
         /\ jobs[j].worker_id # NoWorker
         /\ LiveWorker(j) \/ FreshWorker(j)) =>
            LET w == jobs[j].worker_id
                s == watchdog_sweep(St, St, 1)
            IN  /\ s.jobs[j] = jobs[j]
                /\ w \in DOMAIN workers => s.workers[w] = workers[w]
                /\ Occurrences(s.job_queue, j) = Occurrences(job_queue, j)
                /\ ~s.hist.swept[j] \/ hist.swept[j]

\* a job runs on a worker whose heartbeat is stale but which has a registry
\* entry, and the sweep leaves every job row as it is
C33_Witness ==
    \E j \in JobIds :
        /\ jobs[j].status = "running"
        /\ jobs[j].worker_id # NoWorker
        /\ LiveWorker(j)
        /\ ~FreshWorker(j)
        /\ watchdog_sweep(St, St, 1).jobs = jobs

(* ---- C34 ---- *)

\* dispatch() is free to run, the head job has no worker it may be given, an
\* idle worker of its submitter is registered, and another id follows
HeadSelfBlocked ==
    /\ lock = NoTask
    /\ Len(job_queue) >= 2
    /\ JobExists(St, job_queue[1])
    /\ get_idle_worker_id(workers_ws, jobs[job_queue[1]].user_id) = NoWorker
    /\ \E i \in 1..Len(workers_ws) :
           /\ workers_ws[i].status = "idle"
           /\ workers_ws[i].can_execute
           /\ workers_ws[i].owner_id = jobs[job_queue[1]].user_id

C35_Step ==
    \A j \in JobIds :
        /\ hist.refunded[j] > 0 => hist'.refunded[j] = hist.refunded[j]
        /\ hist.rewarded[j] > 0 => hist'.rewarded[j] = hist.rewarded[j]

\* C35: for every job, once a refund has been credited to its submitter no
\* step credits a further refund for it, and once a reward has been credited
\* for it no step credits a further reward.
C35_SettledAtMostOnce == [][C35_Step]_vars

(* ---- C36 ---- *)

\* C36: in every reachable state, every job whose status is queued has its
\* id on job_queue or is the job the running dispatch() loop holds.
C36_NoQueuedJobLost ==
    \A j \in JobIds :
        jobs[j].status = "queued" =>
            \/ InQueue(j)
            \/ lock # NoTask /\ sending.job = j

(* ---- C37 ---- *)

\* C37: in every reachable state, for every job the reward credited to the
\* worker owner plus the refund credited to the submitter is at most the
\* amount debited at submission; stated here for the jobs that were assigned
\* to a worker while at most one job_result has been handled at all, so that
\* no repeated or stray settlement is involved.
C37_NoCreditCreation ==
    \A j \in JobIds :
        (hist.nresults <= 1 /\ jobs[j].worker_id # NoWorker) =>
            hist.rewarded[j] + hist.refunded[j] <= hist.debited[j]

(* ---- C38 ---- *)

\* session c is about to be torn down while the registry entry of its worker
\* id belongs to a newer session
Superseded(c) ==
    /\ sess[c].st = "closing"
    /\ sess[c].pc = "recv"
    /\ lock = NoTask
    /\ sess[c].worker_id # NoWorker
    /\ get_worker_ws(St, sess[c].worker_id) \notin {c, NoConn}

\* C38: from every reachable state in which a session's worker id has been
\* registered again by a newer session, the teardown of the older session
\* leaves the registry entry of the newer session in place and leaves every
\* job that is running on that worker id as it is, off job_queue.
C38_OldTeardownSparesNewSession ==
    \A c \in Conns :
        Superseded(c) =>
            LET w == sess[c].worker_id
                s == teardown(St, c)
            IN  /\ get_worker_ws(s, w) = get_worker_ws(St, w)
                /\ \A j \in JobIds :
                       (jobs[j].status = "running" /\ jobs[j].worker_id = w) =>
                           /\ s.jobs[j] = jobs[j]
                           /\ Occurrences(s.job_queue, j) = Occurrences(job_queue, j)

(* ---- C39 ---- *)

C39_Step == \A o \in DOMAIN user_auth : user_auth'[o] = user_auth[o]

\* C39: once a user_auth row exists for an owner id, no step changes the
\* token stored in it.
C39_TokenNeverReplaced == [][C39_Step]_vars

(* ---- C40 ---- *)

\* C40: in every reachable state, no job id occurs more than once on
\* job_queue.
C40_QueueHasNoDuplicates ==
    \A j \in JobIds : Occurrences(job_queue, j) <= 1

\* both jobs are on job_queue, one of them put back by a requeue after it had
\* been running
C40_Witness ==
    /\ Len(job_queue) = 2
    /\ \E j \in JobIds :
           /\ hist.requeued[j]
           /\ InQueue(j)
           /\ jobs[j].status = "queued"
           /\ jobs[j].started_at # NULL

====
